---- MODULE Spec2Model ----
(***************************************************************************)
(* Entitlement store, quota engine, premium state machine, main-bot URL    *)
(* handler and payment-bot order flow of the Terabox premium bot, with     *)
(* the signatures, callback tokens and discounts that guard the order      *)
(* flow and the scheduled reset of the free counters.                      *)
(*                                                                         *)
(* Every function is modelled as it is written, with Python's semantics    *)
(* for the calls between the repository's own functions: the number of     *)
(* arguments a call passes, the type of the value passed (a dict where a   *)
(* plan-type string is compared), the truth value of a returned tuple and  *)
(* awaiting a value that is not awaitable.  The chat transport is outside  *)
(* the model: modules are taken as loaded and message templates and        *)
(* keyboards as rendered, so a handler's reply is recorded by its name.    *)
(*                                                                         *)
(* Time is counted in days.  A stored timestamp string records whether it  *)
(* was written from a timezone-aware or a naive datetime, because          *)
(* fromisoformat gives back what isoformat was given and Python refuses    *)
(* to compare an aware datetime with a naive one.  The age of a callback   *)
(* token is counted in seconds, on a clock of its own.  HMAC and Fernet    *)
(* are taken as ideal: a digest or a token is recognised only if it was    *)
(* made from the same key and the same message.                            *)
(***************************************************************************)
EXTENDS Integers, Sequences, FiniteSets, TLC

----------------------------------------------------------------------------
(* Bounds of the model *)

\* the clock ticks day by day up to MaxNow; one long wait may follow
MaxNow == 1
\* the length in days of a long wait (longer than premium_99's 99 days)
LongWait == 100
\* handlers of the store API that may be in flight at the same time
MaxCalls == 2
\* consume is not started once the stored counter has reached this value
MaxFreeUses == 5
\* gateway orders created in one behaviour
MaxOrders == 2
\* payment-status checks of one order that observe it paid
MaxPaidChecks == 2

Users == {1}
CallIds == 1..MaxCalls
OrderIds == 1..MaxOrders

----------------------------------------------------------------------------
(* Program constants *)

\* "return 3  # Max free uses" and "max(3 - current_uses, 0)"
FreeLimit == 3
\* float('inf'), the value get_remaining_free_uses returns for premium users
Inf == 1000000
\* the -1 that increment_free_uses and reset_daily_uses return on error
Sentinel == -1
\* days of plan type 'premium_20' and 'premium_99' in upgrade_user_plan
Premium20Days == 12
Premium99Days == 99
\* def upgrade_user_plan(user_id, plan_type): two parameters
UpgradeUserPlanParams == 2
\* upgrade_user_plan(user_id, plan_id, plan["duration_days"]): three arguments
CheckUpgradeArgs == 3

\* PREMIUM_PLANS of main_bot/premium.py and payment_bot/plans.py: the
\* plan_id of each entry and its duration_days
CatalogPlanIds == {"monthly_premium", "quarterly_premium", "yearly_premium"}
DurationDays(plan_id) ==
    CASE plan_id = "monthly_premium" -> 30
      [] plan_id = "quarterly_premium" -> 90
      [] plan_id = "yearly_premium" -> 365
      [] OTHER -> 0

\* a catalog lookup that finds a plan under every id
any_plan_details(plan_id) == TRUE

\* get_plan_details / get_plan_by_id: the plan whose plan_id matches, or None
get_plan_details(plan_id) == plan_id \in CatalogPlanIds
get_plan_by_id(plan_id) == plan_id \in CatalogPlanIds

----------------------------------------------------------------------------
(* Values: timestamps, documents *)

\* Python's None, where a timestamp string or a datetime is expected
None == [kind |-> "none", t |-> 0]

\* datetime.now(pytz.UTC): timezone-aware;  datetime.utcnow(): naive
AwareDt(t) == [kind |-> "dt_aware", t |-> t]
NaiveDt(t) == [kind |-> "dt_naive", t |-> t]

\* datetime.isoformat(): the string carries the offset iff the datetime is aware
isoformat(dt) ==
    [kind |-> IF dt.kind = "dt_aware" THEN "iso_aware" ELSE "iso_naive", t |-> dt.t]

\* datetime.fromisoformat(s) raises ValueError unless s is an ISO string
fromisoformat_ok(s) == s.kind \in {"iso_aware", "iso_naive"}
fromisoformat(s) ==
    [kind |-> IF s.kind = "iso_aware" THEN "dt_aware" ELSE "dt_naive", t |-> s.t]

\* a > b on datetimes raises TypeError when exactly one of them is aware
compare_ok(a, b) == a.kind = b.kind

\* dt + timedelta(days=d)
plus_days(dt, d) == [dt EXCEPT !.t = dt.t + d]

\* no document under this user id (get_user returns None)
\* The field last_active says whether the stored 'last_active' is the time
\* of the record's latest change
NoDoc ==
    [exists |-> FALSE, free_uses |-> 0, plan |-> "free", expiry |-> None,
     is_premium |-> FALSE, premium_expiry |-> None, last_active |-> FALSE]

\* user_data of create_user: the default record
DefaultDoc ==
    [exists |-> TRUE, free_uses |-> 0, plan |-> "free", expiry |-> None,
     is_premium |-> FALSE, premium_expiry |-> None, last_active |-> TRUE]

\* Python's truth value of a tuple: false only for the empty tuple
Truthy(tuple) == Len(tuple) > 0

Max(a, b) == IF a > b THEN a ELSE b

----------------------------------------------------------------------------
(* State *)

VARIABLES
    store,      \* the 'users' collection: user id -> document (NoDoc if absent)
    users_ref,  \* FALSE when get_firestore_db() returned None at import
    now,        \* the clock, in days
    slots,      \* store-API calls in flight, between two store operations
    rst,        \* the run of reset_daily_uses in progress: the stream left,
                \* count, and how many of the counters it set were not 0
    last,       \* what the call or handler that finished last returned and did
    orders,     \* the payment gateway's orders, by order id (1..Len)
    user_data,  \* context.user_data of the payment bot, per user
    ledger,     \* per order: status checks that saw it paid, upgrades applied
    clock,      \* int(time.time()), in seconds since the start
    issued,     \* callback tokens generate_callback_data has handed out
    cf,         \* the run of the Cloud Function reset_daily_uses in progress
    logs        \* the 'logs' collection: the audit records, oldest first

vars == <<store, users_ref, now, slots, rst, last, orders, user_data, ledger, clock, issued, cf, logs>>

IdleSlot ==
    [op |-> "idle", u |-> 0, pc |-> "idle", found |-> FALSE, pfree |-> FALSE,
     n |-> 0]

\* the record of a finished call.  ret, flag, exp, out: what it returned or
\* replied.  The other fields say what it did: found/pfree/n the document
\* it read, before/stored the counter around its write, wrote whether the
\* write went through, avail whether no store operation failed, rem the
\* quota left at a handler's check, delivered/consumed/told what a handler
\* sent, charged and reported, changed whether it changed a user's record,
\* parsed whether json.loads was given the request body, code, payment_id
\* and sig the discount code, payment id and signature the call was given,
\* tok the callback token it was given and at the time.time() it read
NoResult ==
    [op |-> "none", u |-> 0, arg |-> "", oid |-> 0, status |-> "",
     flag |-> FALSE, exp |-> None, out |-> "", ret |-> 0,
     found |-> FALSE, pfree |-> FALSE, n |-> 0, before |-> 0, stored |-> 0,
     wrote |-> FALSE, avail |-> FALSE, rem |-> 0,
     delivered |-> FALSE, consumed |-> FALSE, told |-> FALSE,
     changed |-> FALSE,
     parsed |-> FALSE, code |-> "", payment_id |-> "",
     at |-> 0, tok |-> [key |-> "", plain |-> <<>>, tamper |-> 0], sig |-> [kind |-> "none", key |-> "", msg |-> <<>>, flip |-> 0]]

\* no run of the Cloud Function: the stream left, count, and the updates made
IdleRun == [pc |-> "idle", todo |-> {}, count |-> 0]

NoUserData == [current_order_id |-> 0, current_plan_id |-> "unknown"]

Init ==
    /\ store = [u \in Users |-> NoDoc]
    /\ users_ref \in BOOLEAN
    /\ now = 0
    /\ slots = [c \in CallIds |-> IdleSlot]
    /\ rst = [pc |-> "idle", todo |-> {}, count |-> 0, nonzero |-> 0]
    /\ last = NoResult
    /\ orders = <<>>
    /\ user_data = [u \in Users |-> NoUserData]
    /\ ledger = [o \in OrderIds |-> [paid_checks |-> 0, applied |-> 0]]
    /\ clock = 0
    /\ issued = {}
    /\ cf = IdleRun
    /\ logs = <<>>

----------------------------------------------------------------------------
(* Entitlement store adapter: firebase/user.py *)

\* get_user: the document, or None when there is no client, no document, or
\* the read raised (ok = FALSE)
get_user(st, u, ok) ==
    IF users_ref /\ ok /\ st[u].exists THEN st[u] ELSE NoDoc

\* users_ref.document(id).update(data): a server-side merge of the given
\* fields; raises when the document is absent or the store fails
doc_update_ok(st, u, ok) == ok /\ st[u].exists
\* a write that replaces the document: the fields not given get their defaults
doc_set(st, u, data) ==
    [st EXCEPT ![u] =
        [f \in DOMAIN st[u] |->
            IF f \in DOMAIN data THEN data[f]
            ELSE IF f = "last_active" THEN FALSE
            ELSE DefaultDoc[f]]]
\* an update that does not carry 'last_active' and changes a field leaves
\* the stored 'last_active' older than the change
doc_update(st, u, data) ==
    [st EXCEPT ![u] =
        [f \in DOMAIN st[u] |->
            IF f \in DOMAIN data THEN data[f]
            ELSE IF f = "last_active" /\ \E g \in DOMAIN data : data[g] # st[u][g]
            THEN FALSE
            ELSE st[u][f]]]

\* data['last_active'] = datetime.now(pytz.UTC)
with_last_active(data) ==
    [f \in DOMAIN data \cup {"last_active"} |->
        IF f = "last_active" THEN TRUE ELSE data[f]]

\* update_user: True iff the update went through; the exception is swallowed
update_user(st, u, data, ok) ==
    IF users_ref /\ doc_update_ok(st, u, ok)
    THEN [ok |-> TRUE, store |-> doc_update(st, u, with_last_active(data))]
    ELSE [ok |-> FALSE, store |-> st]

\* the days upgrade_user_plan grants for plan_type; 0 stands for "return False".
\* plan_type is what the caller passed: a string or a dict
PlanTypeDays(plan_type) ==
    IF plan_type.ty = "str" /\ plan_type.s = "premium_20" THEN Premium20Days
    ELSE IF plan_type.ty = "str" /\ plan_type.s = "premium_99" THEN Premium99Days
    ELSE 0

StrArg(s) == [ty |-> "str", s |-> s]
DictArg(s) == [ty |-> "dict", s |-> s]

\* upgrade_user_plan(user_id, plan_type)
upgrade_user_plan(st, u, plan_type, t, ok) ==
    IF ~users_ref \/ PlanTypeDays(plan_type) = 0
    THEN [ok |-> FALSE, store |-> st]
    ELSE update_user(st, u,
            [plan |-> plan_type.s,
             expiry |-> isoformat(plus_days(AwareDt(t), PlanTypeDays(plan_type)))],
            ok)

\* the remaining count without its floor at 0
RemainingNoFloor(doc, t) == FreeLimit - doc.free_uses

\* get_remaining_free_uses, lines 134-149, for a document that was found
RemainingOf(doc, t) ==
    LET remaining == Max(FreeLimit - doc.free_uses, 0)
    IN IF doc.plan # "free" /\ doc.expiry # None
       THEN IF ~fromisoformat_ok(doc.expiry) THEN 0
            ELSE IF ~compare_ok(fromisoformat(doc.expiry), AwareDt(t)) THEN 0
            ELSE IF fromisoformat(doc.expiry).t > t THEN Inf
            ELSE remaining
       ELSE remaining

\* MAX_FREE_USES_PER_DAY = int(os.getenv("MAX_FREE_USES_PER_DAY", "3")): the
\* default, and another value a deployment may set.  No module imports the
\* name; get_remaining_free_uses has its own 3 (FreeLimit)
ConfiguredLimits == {3, 5}

\* a counter that steps by two, to test the properties of the quota
NewCountByTwo(n) == n + 2

\* increment_free_uses: new_count = user_data.get('free_uses', 0) + 1
NewCount(n) == n + 1

----------------------------------------------------------------------------
(* Premium state machine: main_bot/premium.py *)

\* is_user_premium on the value get_user returned: (is_premium, expiry date)
is_user_premium(user, t) ==
    IF ~user.exists THEN <<FALSE, None>>
    ELSE IF ~user.is_premium THEN <<FALSE, None>>
    ELSE IF user.premium_expiry = None THEN <<FALSE, None>>
    ELSE IF ~fromisoformat_ok(user.premium_expiry) THEN <<FALSE, None>>
    ELSE IF ~compare_ok(fromisoformat(user.premium_expiry), NaiveDt(t))
         THEN <<FALSE, None>>
    ELSE IF fromisoformat(user.premium_expiry).t > t
         THEN <<TRUE, fromisoformat(user.premium_expiry)>>
    ELSE <<FALSE, fromisoformat(user.premium_expiry)>>

\* activate_premium_plan: (success, message, store); the read of the user's
\* document may fail (okRead), the update may fail (okWrite)
activate_premium_plan(st, u, plan_id, t, okRead, okWrite) ==
    IF ~get_plan_details(plan_id)
    THEN [ok |-> FALSE, msg |-> "Invalid plan selected", store |-> st]
    ELSE LET expiry_date == plus_days(NaiveDt(t), DurationDays(plan_id))
             cur == is_user_premium(get_user(st, u, okRead), t)
             new_expiry == IF cur[1] /\ cur[2] # None
                           THEN plus_days(cur[2], DurationDays(plan_id))
                           ELSE expiry_date
             \* premium_data, a dict, is passed where plan_type is expected
             up == upgrade_user_plan(st, u, DictArg(plan_id), t, okWrite)
         IN IF ~up.ok
            THEN [ok |-> FALSE, msg |-> "Failed to update premium status",
                  store |-> up.store]
            ELSE [ok |-> TRUE, msg |-> "Premium plan activated",
                  store |-> up.store]

\* get_remaining_free_uses run without interruption: (value, store).  A
\* user whose document is not found is created (create_user reads again,
\* then sets the default record) and gets the full limit
get_remaining_free_uses(st, u, t, okGet, okGet2, okSet) ==
    IF ~users_ref THEN [ret |-> 0, store |-> st]
    ELSE IF get_user(st, u, okGet).exists
         THEN [ret |-> RemainingOf(get_user(st, u, okGet), t), store |-> st]
         ELSE [ret |-> FreeLimit,
               store |-> IF ~get_user(st, u, okGet2).exists /\ okSet
                         THEN [st EXCEPT ![u] = DefaultDoc] ELSE st]

----------------------------------------------------------------------------
(* Store-API calls, one store operation per step *)

Idle(c) == slots[c].op = "idle"
\* a new call takes the first free slot
FirstIdle(c) == Idle(c) /\ \A d \in CallIds : d < c => ~Idle(d)

Begin(c, op, u, pc) ==
    slots' = [slots EXCEPT ![c] = [IdleSlot EXCEPT !.op = op, !.u = u, !.pc = pc]]

\* the call in slot c returns: its record, with the slot's reads in it
Result(c) ==
    [NoResult EXCEPT !.op = slots[c].op, !.u = slots[c].u,
                     !.found = slots[c].found, !.pfree = slots[c].pfree,
                     !.n = slots[c].n]

\* increment_free_uses is entered: "if not users_ref: return -1"
ConsumeStart(c, u) ==
    /\ Idle(c)
    /\ store[u].free_uses < MaxFreeUses
    /\ IF users_ref
       THEN Begin(c, "consume", u, "get") /\ last' = last
       ELSE /\ last' = [NoResult EXCEPT !.op = "consume", !.u = u, !.ret = Sentinel]
            /\ slots' = slots
    /\ UNCHANGED <<store, users_ref, now, rst, orders, user_data, ledger, clock, issued, cf, logs>>

\* get_remaining_free_uses is entered: "if not users_ref: return 0"
GetRemainingStart(c, u) ==
    /\ Idle(c)
    /\ IF users_ref
       THEN Begin(c, "get_remaining", u, "get") /\ last' = last
       ELSE /\ last' = [NoResult EXCEPT !.op = "get_remaining", !.u = u, !.ret = 0]
            /\ slots' = slots
    /\ UNCHANGED <<store, users_ref, now, rst, orders, user_data, ledger, clock, issued, cf, logs>>

\* create_user is entered: "if not users_ref: return False"
CreateUserStart(c, u) ==
    /\ Idle(c)
    /\ IF users_ref
       THEN Begin(c, "create", u, "create_get") /\ last' = last
       ELSE /\ last' = [NoResult EXCEPT !.op = "create", !.u = u, !.flag = FALSE]
            /\ slots' = slots
    /\ UNCHANGED <<store, users_ref, now, rst, orders, user_data, ledger, clock, issued, cf, logs>>

\* create_user has returned `created` inside the call in slot c:
\* increment_free_uses goes on to its update with user_data = {'free_uses': 0},
\* get_remaining_free_uses returns 3, create_user itself returns `created`
AfterCreate(c, created) ==
    IF slots[c].op = "consume"
    THEN /\ slots' = [slots EXCEPT ![c].pc = "update"]
         /\ last' = last
    ELSE /\ slots' = [slots EXCEPT ![c] = IdleSlot]
         /\ last' = IF slots[c].op = "get_remaining"
                    THEN [Result(c) EXCEPT !.ret = FreeLimit]
                    ELSE [Result(c) EXCEPT !.flag = created]

\* user_data = get_user(user_id) in increment_free_uses and
\* get_remaining_free_uses
StepGet(c) ==
    /\ slots[c].pc = "get"
    /\ slots[c].op = "consume" => store[slots[c].u].free_uses < MaxFreeUses
    /\ \E ok \in BOOLEAN :
        LET d == get_user(store, slots[c].u, ok)
            seen == [slots[c] EXCEPT !.found = TRUE, !.n = d.free_uses,
                                     !.pfree = (d.plan = "free")]
        IN IF ~d.exists
           THEN /\ slots' = [slots EXCEPT ![c].pc = "create_get"]
                /\ last' = last
           ELSE IF slots[c].op = "consume"
           THEN /\ slots' = [slots EXCEPT ![c] = [seen EXCEPT !.pc = "update"]]
                /\ last' = last
           ELSE /\ slots' = [slots EXCEPT ![c] = IdleSlot]
                /\ last' = [Result(c) EXCEPT !.found = TRUE, !.n = d.free_uses,
                                !.pfree = (d.plan = "free"),
                                !.ret = RemainingOf(d, now)]
    /\ UNCHANGED <<store, users_ref, now, rst, orders, user_data, ledger, clock, issued, cf, logs>>

\* create_user: existing_user = get_user(user_id); return True if it exists
StepCreateGet(c) ==
    /\ slots[c].pc = "create_get"
    /\ \E ok \in BOOLEAN :
        IF get_user(store, slots[c].u, ok).exists
        THEN AfterCreate(c, TRUE)
        ELSE /\ slots' = [slots EXCEPT ![c].pc = "create_set"]
             /\ last' = last
    /\ UNCHANGED <<store, users_ref, now, rst, orders, user_data, ledger, clock, issued, cf, logs>>

\* create_user: users_ref.document(id).set(user_data), which replaces
\* whatever document is there; False if it raises
StepCreateSet(c) ==
    /\ slots[c].pc = "create_set"
    /\ \E ok \in BOOLEAN :
        /\ store' = IF ok THEN [store EXCEPT ![slots[c].u] = DefaultDoc] ELSE store
        /\ AfterCreate(c, ok)
    /\ UNCHANGED <<users_ref, now, rst, orders, user_data, ledger, clock, issued, cf, logs>>

\* increment_free_uses: update_user(user_id, {'free_uses': new_count});
\* return new_count, whatever update_user returned
StepUpdate(c) ==
    /\ slots[c].pc = "update"
    /\ \E ok \in BOOLEAN :
        LET up == update_user(store, slots[c].u,
                              [free_uses |-> NewCount(slots[c].n)], ok)
        IN /\ store' = up.store
           /\ last' = [Result(c) EXCEPT !.ret = NewCount(slots[c].n),
                           !.wrote = up.ok,
                           !.before = store[slots[c].u].free_uses,
                           !.stored = up.store[slots[c].u].free_uses]
    /\ slots' = [slots EXCEPT ![c] = IdleSlot]
    /\ UNCHANGED <<users_ref, now, rst, orders, user_data, ledger, clock, issued, cf, logs>>

----------------------------------------------------------------------------
(* reset_daily_uses of firebase/user.py: a query, then one update per user *)

ResetResult(count) == [NoResult EXCEPT !.op = "reset", !.ret = count]

\* "if not users_ref: return -1"; else the stream of the users with
\* plan == 'free' is opened; -1 if the query raises
ResetStart ==
    /\ rst.pc = "idle"
    /\ \E ok \in BOOLEAN :
        LET free_users == {u \in Users : store[u].exists /\ store[u].plan = "free"}
        IN IF ~users_ref \/ ~ok
           THEN /\ last' = ResetResult(Sentinel)
                /\ rst' = rst
           ELSE IF free_users = {}
           THEN /\ last' = ResetResult(0)
                /\ rst' = rst
           ELSE /\ rst' = [pc |-> "update", todo |-> free_users, count |-> 0,
                            nonzero |-> 0]
                /\ last' = last
    /\ UNCHANGED <<store, users_ref, now, slots, orders, user_data, ledger, clock, issued, cf, logs>>

\* users_ref.document(user.id).update({'free_uses': 0}); count += 1.  An
\* update that raises ends the run with -1
ResetUpdate ==
    /\ rst.pc = "update"
    /\ \E u \in rst.todo, ok \in BOOLEAN :
        LET was_set == IF store[u].free_uses # 0 THEN 1 ELSE 0
        IN IF doc_update_ok(store, u, ok)
           THEN /\ store' = doc_update(store, u, [free_uses |-> 0])
                /\ IF rst.todo = {u}
                   THEN /\ rst' = [pc |-> "idle", todo |-> {}, count |-> 0,
                                    nonzero |-> 0]
                        /\ last' = [ResetResult(rst.count + 1) EXCEPT
                                        !.n = rst.nonzero + was_set]
                   ELSE /\ rst' = [rst EXCEPT !.todo = @ \ {u}, !.count = @ + 1,
                                               !.nonzero = @ + was_set]
                        /\ last' = last
           ELSE /\ store' = store
                /\ rst' = [pc |-> "idle", todo |-> {}, count |-> 0, nonzero |-> 0]
                /\ last' = ResetResult(Sentinel)
    /\ UNCHANGED <<users_ref, now, slots, orders, user_data, ledger, clock, issued, cf, logs>>

----------------------------------------------------------------------------
(* Calls that make at most one store operation *)

\* is_user_premium(user_id)
IsUserPremium(u) ==
    /\ \E ok \in BOOLEAN :
        LET r == is_user_premium(get_user(store, u, ok), now)
        IN last' = [NoResult EXCEPT !.op = "check", !.u = u, !.flag = r[1],
                        !.exp = r[2], !.avail = users_ref /\ ok]
    /\ UNCHANGED <<store, users_ref, now, slots, rst, orders, user_data, ledger, clock, issued, cf, logs>>

PlanIdInputs == {"monthly_premium", "quarterly_premium", "bogus"}

\* activate_premium_plan(user_id, plan_id, payment_id)
ActivatePremiumPlan(u, plan_id) ==
    /\ \E okRead \in BOOLEAN, okWrite \in BOOLEAN :
        LET r == activate_premium_plan(store, u, plan_id, now, okRead, okWrite)
        IN /\ store' = r.store
           /\ last' = [NoResult EXCEPT !.op = "activate", !.u = u, !.arg = plan_id,
                          !.flag = r.ok, !.out = r.msg,
                          !.wrote = r.store # store,
                          !.avail = users_ref /\ okRead /\ okWrite]
    /\ UNCHANGED <<users_ref, now, slots, rst, orders, user_data, ledger, clock, issued, cf, logs>>

PlanTypeInputs == {"premium_20", "premium_99", "monthly_premium"}

\* upgrade_user_plan(user_id, plan_type), called with a plan-type string
UpgradeUserPlan(u, plan_type) ==
    /\ \E ok \in BOOLEAN :
        LET r == upgrade_user_plan(store, u, StrArg(plan_type), now, ok)
        IN /\ store' = r.store
           /\ last' = [NoResult EXCEPT !.op = "upgrade", !.u = u, !.arg = plan_type,
                          !.flag = r.ok, !.avail = users_ref /\ ok]
    /\ UNCHANGED <<users_ref, now, slots, rst, orders, user_data, ledger, clock, issued, cf, logs>>

----------------------------------------------------------------------------
(* Main bot: process_terabox_url *)

\* what downloader.get_file_info returns: a (success, info) tuple, the
\* method being a plain def; "await" of it raises TypeError
FileInfoResult == [ty |-> "tuple"]
Awaitable(value) == value.ty = "coroutine"

\* "if not is_premium:" on the tuple is_user_premium returned
GateEntered(is_premium) == ~Truthy(is_premium)

\* a handler whose download succeeds and that charges every delivery
after_gate_charged(file_info, is_premium) ==
    [out |-> "download_success", delivered |-> TRUE, consumed |-> TRUE]

\* lines 142-197 with an await that returns a share whose every file is
\* over the size limit: each file is skipped with "continue", and the
\* increment after the loop runs all the same
after_gate_all_skipped(file_info, is_premium) ==
    [out |-> "file_too_large", delivered |-> FALSE, consumed |-> TRUE]

\* lines 129-207 once the gate is passed: the processing message, then the
\* try block.  The await raises and the except clause replies
\* download_error, so the file loop and increment_free_uses (lines 142-200)
\* are not reached; had the await returned, a link would be sent and
\* "if not is_premium: increment_free_uses(user_id)" would run
AfterGate(file_info, is_premium) ==
    IF ~Awaitable(file_info)
    THEN [out |-> "download_error", delivered |-> FALSE, consumed |-> FALSE]
    ELSE [out |-> "download_success", delivered |-> TRUE,
          consumed |-> GateEntered(is_premium)]

ProcessTeraboxUrl(u) ==
    /\ \E okRead \in BOOLEAN, okGet \in BOOLEAN, okGet2 \in BOOLEAN,
          okSet \in BOOLEAN :
        LET is_premium == is_user_premium(get_user(store, u, okRead), now)
            rem == get_remaining_free_uses(store, u, now, okGet, okGet2, okSet)
            refused == GateEntered(is_premium) /\ rem.ret <= 0
            tail == AfterGate(FileInfoResult, is_premium)
            st1 == IF GateEntered(is_premium) THEN rem.store ELSE store
            st2 == IF ~refused /\ tail.consumed
                   THEN update_user(st1, u,
                            [free_uses |-> NewCount(st1[u].free_uses)], TRUE).store
                   ELSE st1
        IN /\ store' = st2
           /\ last' = [NoResult EXCEPT !.op = "process_url", !.u = u,
                          !.flag = is_premium[1],
                          !.rem = get_remaining_free_uses(
                                      store, u, now, TRUE, TRUE, FALSE).ret,
                          !.out = IF refused THEN "free_limit_reached" ELSE tail.out,
                          !.delivered = ~refused /\ tail.delivered,
                          !.consumed = st2[u].free_uses # store[u].free_uses,
                          !.before = store[u].free_uses,
                          !.stored = st2[u].free_uses,
                          !.avail = users_ref /\ okRead]
    /\ UNCHANGED <<users_ref, now, slots, rst, orders, user_data, ledger, clock, issued, cf, logs>>

\* time passes: a day, or a long wait
Tick ==
    /\ now < MaxNow
    /\ \E d \in {1, LongWait} : now' = now + d
    /\ UNCHANGED <<store, users_ref, slots, rst, last, orders, user_data, ledger, clock, issued, cf, logs>>

----------------------------------------------------------------------------
(* Payment bot: payment_bot/bot.py and razorpay_handlers.py *)

\* a call raises TypeError unless it passes as many arguments as the
\* function has parameters
ArityOk(args, params) == args = params

\* variants of the upgrade call, to test the properties of reconciliation:
\* a call that applies a plan type the store accepts, and the call with
\* the two arguments (user_id, plan_id)
upgrade_applied(st, u, plan_id, t, ok) ==
    [raised |-> FALSE,
     ok |-> upgrade_user_plan(st, u, StrArg("premium_20"), t, ok).ok,
     store |-> upgrade_user_plan(st, u, StrArg("premium_20"), t, ok).store]
upgrade_two_args(st, u, plan_id, t, ok) ==
    [raised |-> FALSE,
     ok |-> upgrade_user_plan(st, u, StrArg(plan_id), t, ok).ok,
     store |-> upgrade_user_plan(st, u, StrArg(plan_id), t, ok).store]

\* check_payment_status, line 197, the call as written:
\* upgrade_user_plan(user_id, plan_id, plan["duration_days"]).
\* (raised, returned value, store)
upgrade_from_check(st, u, plan_id, t, ok) ==
    IF ~ArityOk(CheckUpgradeArgs, UpgradeUserPlanParams)
    THEN [raised |-> TRUE, ok |-> FALSE, store |-> st]
    ELSE [raised |-> FALSE,
          ok |-> upgrade_user_plan(st, u, StrArg(plan_id), t, ok).ok,
          store |-> upgrade_user_plan(st, u, StrArg(plan_id), t, ok).store]

\* order.get("status") == "paid"
IsPaid(status) == status = "paid"

\* a variant that upgrades before it looks at the order's status
reconcile_eager(st, u, plan_id, fetched, status, t, ok) ==
    [out |-> IF fetched /\ status = "paid" THEN "payment_success"
             ELSE "payment_pending",
     store |-> upgrade_user_plan(st, u, StrArg("premium_20"), t, ok).store,
     called |-> TRUE,
     ok |-> upgrade_user_plan(st, u, StrArg("premium_20"), t, ok).ok,
     done |-> fetched /\ status = "paid"]

\* check_payment_status, lines 179-257, once order_id, user_id and plan_id
\* are known: the reply, the store it leaves, and whether the upgrade was
\* called, returned True, and user_data was cleared and the admins told
reconcile(st, u, plan_id, fetched, status, t, ok) ==
    LET quiet == [out |-> "", store |-> st, called |-> FALSE, ok |-> FALSE,
                  done |-> FALSE]
    IN IF ~fetched
       THEN [quiet EXCEPT !.out = "failed_to_check"]
       ELSE IF ~IsPaid(status)
       THEN [quiet EXCEPT !.out = "payment_pending"]
       ELSE IF ~get_plan_by_id(plan_id)
       THEN [quiet EXCEPT !.out = "plan_not_found"]
       ELSE LET call == upgrade_from_check(st, u, plan_id, t, ok)
            IN IF call.raised
               THEN \* caught by "except Exception" at line 255
                    [quiet EXCEPT !.out = "failed_to_check", !.called = TRUE]
               ELSE \* upgrade_success is not looked at
                    [out |-> "payment_success", store |-> call.store,
                     called |-> TRUE, ok |-> call.ok, done |-> TRUE]

\* create_payment: create_order(user_id, plan_id), then the order id and
\* the plan id are kept in context.user_data
CreatePayment(u, plan_id) ==
    /\ Len(orders) < MaxOrders
    /\ \E okGateway \in BOOLEAN :
        IF get_plan_by_id(plan_id) /\ okGateway
        THEN /\ orders' = Append(orders,
                    [user_id |-> u, plan_id |-> plan_id, status |-> "created"])
             /\ user_data' = [user_data EXCEPT ![u] =
                    [current_order_id |-> Len(orders) + 1,
                     current_plan_id |-> plan_id]]
             /\ last' = [NoResult EXCEPT !.op = "create_payment", !.u = u,
                            !.arg = plan_id, !.oid = Len(orders) + 1,
                            !.flag = TRUE, !.out = "payment_instructions"]
        ELSE /\ UNCHANGED <<orders, user_data>>
             /\ last' = [NoResult EXCEPT !.op = "create_payment", !.u = u,
                            !.arg = plan_id, !.flag = FALSE,
                            !.out = "payment_error"]
    /\ UNCHANGED <<store, users_ref, now, slots, rst, ledger, clock, issued, cf, logs>>

\* the gateway moves an order on: the customer pays, or the payment fails
GatewayAdvance(o) ==
    /\ o \in DOMAIN orders
    /\ \E s \in {"pending", "paid", "failed"} :
        /\ orders[o].status = "created" \/ (orders[o].status = "pending" /\ s # "pending")
        /\ orders' = [orders EXCEPT ![o].status = s]
    /\ UNCHANGED <<store, users_ref, now, slots, rst, last, user_data, ledger, clock, issued, cf, logs>>

\* the bot process is restarted: context.user_data is kept in memory only
PaymentBotRestart ==
    /\ user_data # [u \in Users |-> NoUserData]
    /\ user_data' = [u \in Users |-> NoUserData]
    /\ UNCHANGED <<store, users_ref, now, slots, rst, last, orders, ledger, clock, issued, cf, logs>>

\* check_payment_status for the order whose button user u pressed
CheckPaymentStatus(u, o) ==
    /\ o \in DOMAIN orders
    /\ orders[o].user_id = u
    /\ IsPaid(orders[o].status) => ledger[o].paid_checks < MaxPaidChecks
    /\ \E okFetch \in BOOLEAN, okStore \in BOOLEAN :
        LET plan_id == user_data[u].current_plan_id
            r == reconcile(store, u, plan_id, okFetch, orders[o].status, now, okStore)
            saw_paid == okFetch /\ IsPaid(orders[o].status)
        IN /\ store' = r.store
           /\ user_data' = IF r.done THEN [user_data EXCEPT ![u] = NoUserData]
                           ELSE user_data
           /\ ledger' = [ledger EXCEPT
                   ![o].paid_checks = @ + (IF saw_paid THEN 1 ELSE 0),
                   ![o].applied = @ + (IF r.ok THEN 1 ELSE 0)]
           /\ last' = [NoResult EXCEPT !.op = "check_payment", !.u = u,
                          !.arg = plan_id, !.oid = o,
                          !.status = IF okFetch THEN orders[o].status ELSE "",
                          !.out = r.out, !.wrote = r.called, !.flag = r.ok,
                          !.told = r.done, !.changed = r.store # store,
                          !.avail = users_ref /\ okStore]
    /\ UNCHANGED <<users_ref, now, slots, rst, orders, clock, issued, cf, logs>>

----------------------------------------------------------------------------
(* Signatures: utils/security.py, and the webhook of the payment bot *)

\* RAZORPAY_WEBHOOK_SECRET and RAZORPAY_KEY_SECRET of the configuration
RAZORPAY_WEBHOOK_SECRET == "webhook_secret"
RAZORPAY_KEY_SECRET == "key_secret"

\* hmac.new(key, msg, sha256).hexdigest(): a string of hexadecimal digits
\* that is a different one for every other key or message
hmac_hexdigest(key, msg) == [kind |-> "hex", key |-> key, msg |-> msg, flip |-> 0]

\* a signature with the character at position i replaced, by another
\* hexadecimal digit or by a character outside ASCII
FlipChars == {1, 2}
flip_char(signature, i) == [signature EXCEPT !.flip = i]
flip_non_ascii(signature, i) == [signature EXCEPT !.flip = i, !.kind = "non_ascii"]

\* a comparison that leaves out the character that was replaced
compare_truncated(a, b) == [a EXCEPT !.flip = 0] = [b EXCEPT !.flip = 0]

\* hmac.compare_digest(a, b) on two str: TypeError unless both are ASCII
compare_digest_ok(a, b) == a.kind = "hex" /\ b.kind = "hex"
compare_digest(a, b) == a = b

\* a verification that accepts every ASCII signature
accept_any(body, signature, secret) ==
    [raised |-> signature.kind # "hex", ok |-> signature.kind = "hex"]

\* verify_webhook_signature(request_body, signature, secret)
verify_webhook_signature(body, signature, secret) ==
    LET expected_signature == hmac_hexdigest(secret, <<body>>)
    IN  [raised |-> ~compare_digest_ok(expected_signature, signature),
         ok |-> /\ compare_digest_ok(expected_signature, signature)
                /\ compare_digest(expected_signature, signature)]

\* order ids and payment ids of the gateway: letters, digits and "_"
GatewayOrderIds == {"order_1", "order_2"}
GatewayPaymentIds == {"pay_1", "pay_2"}

\* generate_payment_signature(order_id, payment_id): the HMAC of
\* f"{order_id}|{payment_id}", a string that is a different one for every
\* other pair of such ids
generate_payment_signature(order_id, payment_id) ==
    hmac_hexdigest(RAZORPAY_KEY_SECRET, <<order_id, payment_id>>)

\* verify_payment_signature(order_id, payment_id, signature)
verify_payment_signature(order_id, payment_id, signature) ==
    LET expected_signature == generate_payment_signature(order_id, payment_id)
    IN  [raised |-> ~compare_digest_ok(expected_signature, signature),
         ok |-> /\ compare_digest_ok(expected_signature, signature)
                /\ compare_digest(expected_signature, signature)]

\* verify_payment(order_id, payment_id, signature): False on any exception
verify_payment(order_id, payment_id, signature) ==
    /\ ~verify_payment_signature(order_id, payment_id, signature).raised
    /\ verify_payment_signature(order_id, payment_id, signature).ok

\* the signatures a caller may present for a payment: the one generated
\* for it, that one with a character replaced, the one of another payment
\* and one made with another secret
PaymentSignatures(order_id, payment_id) ==
    LET good == generate_payment_signature(order_id, payment_id)
    IN  {good, hmac_hexdigest("attacker_secret", <<order_id, payment_id>>)}
        \cup {generate_payment_signature(order_id, q) : q \in GatewayPaymentIds}
        \cup {flip_char(good, i) : i \in FlipChars}
        \cup {flip_non_ascii(good, i) : i \in FlipChars}

\* a call of verify_payment
VerifyPayment(order_id, payment_id, signature) ==
    /\ last' = [NoResult EXCEPT !.op = "verify_payment", !.arg = order_id,
                   !.payment_id = payment_id, !.sig = signature,
                   !.flag = verify_payment(order_id, payment_id, signature)]
    /\ UNCHANGED <<store, users_ref, now, slots, rst, orders, user_data,
                   ledger, clock, issued, cf, logs>>

\* request bodies: the JSON of a captured and of a failed payment of order
\* 1 by user 1, and a body that is not JSON
WebhookBodies == {"captured", "failed", "not_json"}
json_loads_ok(body) == body # "not_json"
json_loads(body) ==
    [event |-> "payment." \o body, order_id |-> 1, status |-> body,
     user_id |-> 1, plan_id |-> "monthly_premium"]

\* process_webhook_event(request_body, signature): success, the event data
\* or the error, and whether json.loads was reached
process_webhook_event(body, signature) ==
    LET v == verify_webhook_signature(body, signature, RAZORPAY_WEBHOOK_SECRET)
    IN  IF v.raised
        THEN [ok |-> FALSE, parsed |-> FALSE, error |-> "TypeError",
              event |-> "", order_id |-> 0, status |-> ""]
        ELSE IF ~v.ok
        THEN [ok |-> FALSE, parsed |-> FALSE,
              error |-> "Invalid webhook signature",
              event |-> "", order_id |-> 0, status |-> ""]
        ELSE IF ~json_loads_ok(body)
        THEN [ok |-> FALSE, parsed |-> TRUE, error |-> "JSONDecodeError",
              event |-> "", order_id |-> 0, status |-> ""]
        ELSE [ok |-> TRUE, parsed |-> TRUE, error |-> "",
              event |-> json_loads(body).event,
              order_id |-> json_loads(body).order_id,
              status |-> json_loads(body).status]

\* the signatures a request may carry: the gateway's for this body, the
\* gateway's for another body, one made with another secret, and the
\* gateway's with one character replaced
WebhookSignatures(body) ==
    LET good == hmac_hexdigest(RAZORPAY_WEBHOOK_SECRET, <<body>>)
    IN  {good, hmac_hexdigest("attacker_secret", <<body>>)}
        \cup {hmac_hexdigest(RAZORPAY_WEBHOOK_SECRET, <<b>>) : b \in WebhookBodies}
        \cup {flip_char(good, i) : i \in FlipChars}
        \cup {flip_non_ascii(good, i) : i \in FlipChars}

\* a call of process_webhook_event
ProcessWebhookEvent(body, signature) ==
    /\ LET r == process_webhook_event(body, signature)
       IN  last' = [NoResult EXCEPT !.op = "process_webhook_event",
                       !.arg = body, !.sig = signature, !.flag = r.ok,
                       !.parsed = r.parsed,
                       !.out = IF r.ok THEN r.event ELSE r.error,
                       !.oid = r.order_id, !.status = r.status]
    /\ UNCHANGED <<store, users_ref, now, slots, rst, orders, user_data,
                   ledger, clock, issued, cf, logs>>

\* handle_webhook(update, context): "pass".  The record says what the
\* request carried: flag whether its signature matches its body and the
\* body is the JSON of a captured payment; wrote whether activation was
\* called for it
HandleWebhook(body, signature) ==
    /\ last' = [NoResult EXCEPT !.op = "handle_webhook", !.arg = body,
                   !.sig = signature,
                   !.flag = /\ process_webhook_event(body, signature).ok
                            /\ json_loads(body).status = "captured",
                   !.wrote = FALSE]
    /\ UNCHANGED <<store, users_ref, now, slots, rst, orders, user_data,
                   ledger, clock, issued, cf, logs>>

----------------------------------------------------------------------------
(* Discounts and order creation: payment_bot/plans.py, razorpay_handlers.py *)

\* PREMIUM_PLANS of payment_bot/plans.py: "price" (INR) and "price_in_paise"
Price(plan_id) ==
    CASE plan_id = "monthly_premium" -> 49
      [] plan_id = "quarterly_premium" -> 129
      [] plan_id = "yearly_premium" -> 499
      [] OTHER -> 0
PriceInPaise(plan_id) ==
    CASE plan_id = "monthly_premium" -> 4900
      [] plan_id = "quarterly_premium" -> 12900
      [] plan_id = "yearly_premium" -> 49900
      [] OTHER -> 0

\* DISCOUNT_CODES: "percentage", "max_discount" (INR) and "valid_until".
\* Both codes carry the same date; ValidUntil is that date as a day of the
\* model's clock
DISCOUNT_CODES == {"WELCOME10", "PREMIUM20"}
Percentage(code) == IF code = "WELCOME10" THEN 10 ELSE 20
MaxDiscount(code) == IF code = "WELCOME10" THEN 50 ELSE 100
ValidUntil == 0

\* str.upper() on the codes a customer may type
upper(code) ==
    CASE code = "welcome10" -> "WELCOME10"
      [] code = "premium20" -> "PREMIUM20"
      [] OTHER -> code

\* a cap read as an amount in paise
MaxDiscountAsPaise(code) == MaxDiscount(code)
\* max_discount in hundredths of a rupee, the unit of DiscountAmount
MaxDiscountHundredths(code) == MaxDiscount(code) * 100

\* calculate_discounted_price, lines 143-151.  The rupee amounts are Python
\* floats; they are counted here in hundredths of a rupee, where
\* (price * percentage) / 100 is the integer price * percentage
DiscountAmount(plan_id, code) ==
    LET discount_amount == Price(plan_id) * Percentage(code)
    IN  IF discount_amount > MaxDiscountHundredths(code)
        THEN MaxDiscountHundredths(code)
        ELSE discount_amount

\* calculate_discounted_price(plan_id, discount_code): is_valid and
\* final_price_paise = int(final_price * 100)
calculate_discounted_price(plan_id, discount_code) ==
    IF ~get_plan_by_id(plan_id)
    THEN [is_valid |-> FALSE, final_price_paise |-> 0, message |-> "Invalid plan"]
    ELSE IF upper(discount_code) \notin DISCOUNT_CODES
    THEN [is_valid |-> FALSE, final_price_paise |-> PriceInPaise(plan_id),
          message |-> "Invalid discount code"]
    ELSE [is_valid |-> TRUE,
          final_price_paise |->
              Price(plan_id) * 100 - DiscountAmount(plan_id, upper(discount_code)),
          message |-> "Discount applied"]

\* discount_code=None, and the codes a caller may pass
NoCode == ""
DiscountCodeInputs == {NoCode, "WELCOME10", "premium20", "SAVE50"}

\* create_order(user_id, plan_id, discount_code), lines 34-57: the amount of
\* the order sent to the gateway
OrderAmount(plan_id, discount_code) ==
    IF discount_code # NoCode
       /\ calculate_discounted_price(plan_id, discount_code).is_valid
    THEN calculate_discounted_price(plan_id, discount_code).final_price_paise
    ELSE PriceInPaise(plan_id)

\* a call of create_order: (False, error) for a plan that is not in the
\* catalog or when the gateway's client raises, else the gateway's order
CreateOrder(u, plan_id, discount_code) ==
    /\ Len(orders) < MaxOrders
    /\ \E okGateway \in BOOLEAN :
        IF ~get_plan_by_id(plan_id)
        THEN /\ last' = [NoResult EXCEPT !.op = "create_order", !.u = u,
                            !.arg = plan_id, !.code = discount_code,
                            !.out = "Invalid plan selected"]
             /\ orders' = orders
        ELSE IF ~okGateway
        THEN /\ last' = [NoResult EXCEPT !.op = "create_order", !.u = u,
                            !.arg = plan_id, !.code = discount_code,
                            !.out = "gateway_error"]
             /\ orders' = orders
        ELSE /\ last' = [NoResult EXCEPT !.op = "create_order", !.u = u,
                            !.arg = plan_id, !.code = discount_code,
                            !.flag = TRUE, !.oid = Len(orders) + 1,
                            !.ret = OrderAmount(plan_id, discount_code)]
             /\ orders' = Append(orders,
                    [user_id |-> u, plan_id |-> plan_id, status |-> "created"])
    /\ UNCHANGED <<store, users_ref, now, slots, rst, user_data, ledger,
                   clock, issued, cf, logs>>

----------------------------------------------------------------------------
(* Callback tokens: utils/security.py *)

\* the moments of int(time.time()) the model looks at, in seconds: the
\* start, one hour, 24 hours, one second more, and 25 hours
ClockPoints == {0, 3600, 86400, 86401, 90000}
\* "> 86400  # 24 hours in seconds"
TokenMaxAge == 86400

\* ENCRYPTION_KEY, the key of cipher_suite
ENCRYPTION_KEY == "encryption_key"

\* the fields of a plaintext between the ":" separators: str(n) of an
\* integer, or a text that int() refuses
Str(n) == [num |-> TRUE, val |-> n, text |-> ""]
Txt(x) == [num |-> FALSE, val |-> 0, text |-> x]
\* int(field) raises ValueError unless the field is the text of an integer
int_ok(field) == field.num
int(field) == field.val

\* the ":"-separated parts of a plan id
PlanParts(plan_id) ==
    IF plan_id = "multi:part" THEN <<Txt("multi"), Txt("part")>>
    ELSE <<Txt(plan_id)>>

\* f"{user_id}:{plan_id}:{timestamp}", as the list split(":") makes of it
format_data(user_id, plan_id, timestamp) ==
    <<Str(user_id)>> \o PlanParts(plan_id) \o <<Str(timestamp)>>

\* the empty string, as a token and as a plaintext
EmptyToken == [key |-> "", plain |-> <<>>, tamper |-> 0]
EmptyData == <<>>

\* encrypt_data(data): "" for empty data, else the Fernet token of the data
\* under the key, base64-encoded
encrypt_data(data) ==
    IF data = EmptyData THEN EmptyToken
    ELSE [key |-> ENCRYPTION_KEY, plain |-> data, tamper |-> 0]

\* a decryption that does not authenticate the token
decrypt_unauthenticated(encrypted_data) == encrypted_data.plain

\* decrypt_data(encrypted_data): "" for an empty token and when base64 or
\* Fernet refuses the token (another key, a changed byte), else the data
decrypt_data(encrypted_data) ==
    IF encrypted_data = EmptyToken THEN EmptyData
    ELSE IF encrypted_data.key = ENCRYPTION_KEY /\ encrypted_data.tamper = 0
    THEN encrypted_data.plain
    ELSE EmptyData

\* generate_callback_data(user_id, plan_id) at time.time() = t
generate_callback_data(user_id, plan_id, t) ==
    encrypt_data(format_data(user_id, plan_id, t))

\* a check that lets every age pass, and one that refuses the limit itself
never_too_old(current_time, timestamp) == FALSE
too_old_at_limit(current_time, timestamp) ==
    current_time - timestamp >= TokenMaxAge
\* current_time - int(timestamp) > 86400
too_old(current_time, timestamp) == current_time - timestamp > TokenMaxAge

\* (None, None), and decode_callback_data(encrypted_data) at time.time() = t
NoneNone == [some |-> FALSE, user_id |-> 0, plan_id |-> ""]
decode_callback_data(encrypted_data, t) ==
    LET decrypted_data == decrypt_data(encrypted_data)
        parts == decrypted_data
    IN  IF decrypted_data = EmptyData THEN NoneNone
        ELSE IF Len(parts) # 3 THEN NoneNone
        ELSE IF ~int_ok(parts[3]) THEN NoneNone
        ELSE IF too_old(t, int(parts[3])) THEN NoneNone
        ELSE IF ~int_ok(parts[1]) THEN NoneNone
        ELSE [some |-> TRUE, user_id |-> int(parts[1]),
              plan_id |-> parts[2].text]

\* the tokens a callback may carry: an issued one, an issued one with a
\* byte changed, one made under another key, the empty one, and tokens
\* under the bot's key whose plaintext has two fields, a user id that is
\* not a number, or a timestamp that is not a number
TokenInputs ==
    issued
    \cup {[k EXCEPT !.tamper = 1] : k \in issued}
    \cup {[k EXCEPT !.key = "attacker_key"] : k \in issued}
    \cup {EmptyToken,
          encrypt_data(<<Str(1), Txt("monthly_premium")>>),
          encrypt_data(<<Txt("abc"), Txt("monthly_premium"), Str(clock)>>),
          encrypt_data(<<Str(1), Txt("monthly_premium"), Txt("soon")>>)}

\* tokens handed out and not yet discarded by the model
MaxTokens == 1

\* a call of generate_callback_data
GenerateCallbackData(u, plan_id) ==
    /\ Cardinality(issued) < MaxTokens
    /\ issued' = issued \cup {generate_callback_data(u, plan_id, clock)}
    /\ last' = [NoResult EXCEPT !.op = "generate_callback_data", !.u = u,
                   !.arg = plan_id, !.at = clock,
                   !.tok = generate_callback_data(u, plan_id, clock)]
    /\ UNCHANGED <<store, users_ref, now, slots, rst, orders, user_data,
                   ledger, clock, cf, logs>>

\* a call of decode_callback_data, on one of the tokens a callback may carry
DecodeCallbackData ==
    /\ \E k \in TokenInputs :
        LET r == decode_callback_data(k, clock)
        IN  last' = [NoResult EXCEPT !.op = "decode_callback_data",
                        !.tok = k, !.at = clock, !.flag = r.some,
                        !.u = r.user_id, !.arg = r.plan_id]
    /\ UNCHANGED <<store, users_ref, now, slots, rst, orders, user_data,
                   ledger, clock, issued, cf, logs>>

\* time.time() moves on
TickClock ==
    /\ \E t \in ClockPoints : t > clock /\ clock' = t
    /\ UNCHANGED <<store, users_ref, now, slots, rst, last, orders,
                   user_data, ledger, issued, cf, logs>>

----------------------------------------------------------------------------
(* The scheduled reset: reset_daily_uses of functions/reset.py *)

\* audit records the model lets the function write
MaxLogs == 2

\* what an invocation returns: out is "success", "error" or
\* "failed_to_initialize"; ret the count of the success message; n the
\* updates the invocation made; wrote whether it wrote its audit record
CloudResult(out, count, n, wrote) ==
    [NoResult EXCEPT !.op = "cloud_reset", !.out = out, !.ret = count,
                     !.n = n, !.wrote = wrote]

\* initialize_firebase(), then users_ref.where('plan', '==', 'free').stream()
\* is opened.  With no free user the loop is skipped
CloudResetStart ==
    /\ cf.pc = "idle"
    /\ Len(logs) < MaxLogs
    /\ \E okInit \in BOOLEAN, okQuery \in BOOLEAN :
        LET free_users == {u \in Users : store[u].exists /\ store[u].plan = "free"}
        IN IF ~okInit
           THEN /\ last' = CloudResult("failed_to_initialize", 0, 0, FALSE)
                /\ cf' = cf
           ELSE IF ~okQuery
           THEN /\ last' = CloudResult("error", 0, 0, FALSE)
                /\ cf' = cf
           ELSE /\ cf' = [pc |-> IF free_users = {} THEN "log" ELSE "update",
                           todo |-> free_users, count |-> 0]
                /\ last' = last
    /\ UNCHANGED <<store, users_ref, now, slots, rst, orders, user_data,
                   ledger, clock, issued, logs>>

\* users_ref.document(user.id).update({'free_uses': 0}); count += 1; then
\* the loop asks the stream for the next document.  An update or a stream
\* that raises ends the invocation in the except branch
CloudResetUpdate ==
    /\ cf.pc = "update"
    /\ \E u \in cf.todo, okUpdate \in BOOLEAN, okNext \in BOOLEAN :
        IF ~doc_update_ok(store, u, okUpdate)
        THEN /\ store' = store
             /\ cf' = IdleRun
             /\ last' = CloudResult("error", 0, cf.count, FALSE)
        ELSE /\ store' = doc_update(store, u, [free_uses |-> 0])
             /\ IF ~okNext
                THEN /\ cf' = IdleRun
                     /\ last' = CloudResult("error", 0, cf.count + 1, FALSE)
                ELSE /\ cf' = [pc |-> IF cf.todo = {u} THEN "log" ELSE "update",
                                todo |-> cf.todo \ {u}, count |-> cf.count + 1]
                     /\ last' = last
    /\ UNCHANGED <<users_ref, now, slots, rst, orders, user_data, ledger,
                   clock, issued, logs>>

\* log_ref.set({'type': 'daily_reset', 'timestamp': now, 'users_reset': count})
CloudResetLog ==
    /\ cf.pc = "log"
    /\ \E ok \in BOOLEAN :
        IF ok
        THEN /\ logs' = Append(logs, [type |-> "daily_reset", timestamp |-> now,
                                      users_reset |-> cf.count])
             /\ last' = CloudResult("success", cf.count, cf.count, TRUE)
        ELSE /\ logs' = logs
             /\ last' = CloudResult("error", 0, cf.count, FALSE)
    /\ cf' = IdleRun
    /\ UNCHANGED <<store, users_ref, now, slots, rst, orders, user_data,
                   ledger, clock, issued>>

----------------------------------------------------------------------------
(* Specifications *)

\* the quota engine, the premium state machine and the main bot's handler,
\* one store-API call at a time
Next ==
    \/ \E u \in Users : ConsumeStart(1, u)
    \/ \E u \in Users : GetRemainingStart(1, u)
    \/ \E u \in Users : CreateUserStart(1, u)
    \/ StepGet(1)
    \/ StepCreateGet(1)
    \/ StepCreateSet(1)
    \/ StepUpdate(1)
    \/ ResetStart
    \/ ResetUpdate
    \/ \E u \in Users : IsUserPremium(u)
    \/ \E u \in Users, p \in PlanIdInputs : ActivatePremiumPlan(u, p)
    \/ \E u \in Users, p \in PlanTypeInputs : UpgradeUserPlan(u, p)
    \/ \E u \in Users : ProcessTeraboxUrl(u)
    \/ Tick

Spec == Init /\ [][Next]_vars

\* the store API under concurrency: up to MaxCalls calls in flight, and the
\* daily reset
NextRace ==
    \/ \E c \in CallIds, u \in Users : FirstIdle(c) /\ ConsumeStart(c, u)
    \/ \E c \in CallIds, u \in Users : FirstIdle(c) /\ GetRemainingStart(c, u)
    \/ \E c \in CallIds, u \in Users : FirstIdle(c) /\ CreateUserStart(c, u)
    \/ \E c \in CallIds : StepGet(c)
    \/ \E c \in CallIds : StepCreateGet(c)
    \/ \E c \in CallIds : StepCreateSet(c)
    \/ \E c \in CallIds : StepUpdate(c)
    \/ ResetStart
    \/ ResetUpdate

SpecRace == Init /\ [][NextRace]_vars

\* the plan ids and plan types tried in the payment flow
PayPlanIdInputs == {"monthly_premium", "bogus"}
PayPlanTypeInputs == {"premium_20", "monthly_premium"}

\* the payment bot's order flow, over users that other calls create and
\* upgrade
NextPay ==
    \/ \E u \in Users, p \in PayPlanIdInputs : CreatePayment(u, p)
    \/ \E o \in OrderIds : GatewayAdvance(o)
    \/ PaymentBotRestart
    \/ \E u \in Users, o \in OrderIds : CheckPaymentStatus(u, o)
    \/ \E u \in Users : CreateUserStart(1, u)
    \/ StepCreateGet(1)
    \/ StepCreateSet(1)
    \/ \E u \in Users, p \in PayPlanTypeInputs : UpgradeUserPlan(u, p)
    \/ \E u \in Users, p \in PayPlanIdInputs : ActivatePremiumPlan(u, p)

SpecPay == Init /\ [][NextPay]_vars

\* The quota protocol of process_terabox_url for a user who is not premium,
\* as lines 113-114 and 196-197 state it: get_remaining_free_uses, a refusal
\* if it is <= 0, otherwise (after the download) increment_free_uses.  The
\* check is one step; the increment then runs store operation by store
\* operation in slot c.  (The handler as written never enters this branch,
\* see GateEntered; here the store API is run under the protocol.)
GatedCheck(c, u) ==
    /\ Idle(c)
    /\ \E okGet \in BOOLEAN, okGet2 \in BOOLEAN, okSet \in BOOLEAN :
        LET r == get_remaining_free_uses(store, u, now, okGet, okGet2, okSet)
        IN /\ store' = r.store
           /\ IF r.ret > 0
              THEN Begin(c, "consume", u, "get") /\ last' = last
              ELSE /\ slots' = slots
                   /\ last' = [NoResult EXCEPT !.op = "gated", !.u = u,
                                   !.rem = r.ret, !.out = "free_limit_reached"]
    /\ UNCHANGED <<users_ref, now, rst, orders, user_data, ledger, clock, issued, cf, logs>>

\* up to MaxCalls handlers in flight for a user, each following the
\* protocol; no reset
NextGated ==
    \/ \E c \in CallIds, u \in Users : FirstIdle(c) /\ GatedCheck(c, u)
    \/ \E c \in CallIds : StepGet(c)
    \/ \E c \in CallIds : StepCreateGet(c)
    \/ \E c \in CallIds : StepCreateSet(c)
    \/ \E c \in CallIds : StepUpdate(c)

SpecGated == Init /\ [][NextGated]_vars

\* the payment bot's webhook, with the store operations that change a
\* user's entitlement
NextHook ==
    \/ \E b \in WebhookBodies :
         \E g \in WebhookSignatures(b) : ProcessWebhookEvent(b, g)
    \/ \E b \in WebhookBodies :
         \E g \in WebhookSignatures(b) : HandleWebhook(b, g)
    \/ \E u \in Users : CreateUserStart(1, u)
    \/ StepCreateGet(1)
    \/ StepCreateSet(1)
    \/ \E u \in Users, p \in PayPlanTypeInputs : UpgradeUserPlan(u, p)
    \/ \E o \in GatewayOrderIds, q \in GatewayPaymentIds :
         \E g \in PaymentSignatures(o, q) : VerifyPayment(o, q, g)

SpecHook == Init /\ [][NextHook]_vars

\* order creation with discount codes, as the days pass
NextOrder ==
    \/ \E u \in Users, p \in CatalogPlanIds \cup {"bogus"},
          d \in DiscountCodeInputs : CreateOrder(u, p, d)
    \/ \E o \in OrderIds : GatewayAdvance(o)
    \/ Tick

SpecOrder == Init /\ [][NextOrder]_vars

\* callback tokens issued and presented, as time passes
TokenPlanInputs == {"monthly_premium", "yearly_premium", "multi:part"}
NextToken ==
    \/ \E u \in Users, p \in TokenPlanInputs : GenerateCallbackData(u, p)
    \/ DecodeCallbackData
    \/ TickClock

SpecToken == Init /\ [][NextToken]_vars

\* the scheduled reset beside the users' consumption
NextCloud ==
    \/ CloudResetStart
    \/ CloudResetUpdate
    \/ CloudResetLog
    \/ \E u \in Users : ConsumeStart(1, u)
    \/ StepGet(1)
    \/ StepCreateGet(1)
    \/ StepCreateSet(1)
    \/ StepUpdate(1)

SpecCloud == Init /\ [][NextCloud]_vars

\* get_remaining_free_uses on the documents the 'users' collection may
\* hold, whoever wrote them: free and premium records, with no expiry, a
\* timestamp string, or a string that is not a timestamp
MalformedExpiry == [kind |-> "malformed", t |-> 0]
StoredDocs ==
    {NoDoc} \cup
    {[DefaultDoc EXCEPT !.free_uses = n, !.plan = p, !.expiry = e] :
        n \in 0..(FreeLimit + 1), p \in {"free", "premium_20"},
        e \in {None, MalformedExpiry, isoformat(AwareDt(0)),
               isoformat(AwareDt(Premium20Days))}}

InitDocs ==
    /\ store \in [Users -> StoredDocs]
    /\ users_ref \in BOOLEAN
    /\ now = 0
    /\ slots = [c \in CallIds |-> IdleSlot]
    /\ rst = [pc |-> "idle", todo |-> {}, count |-> 0, nonzero |-> 0]
    /\ last = NoResult
    /\ orders = <<>>
    /\ user_data = [u \in Users |-> NoUserData]
    /\ ledger = [o \in OrderIds |-> [paid_checks |-> 0, applied |-> 0]]
    /\ clock = 0
    /\ issued = {}
    /\ cf = IdleRun
    /\ logs = <<>>

NextDocs ==
    \/ \E u \in Users : GetRemainingStart(1, u)
    \/ StepGet(1)
    \/ StepCreateGet(1)
    \/ StepCreateSet(1)
    \/ Tick

SpecDocs == InitDocs /\ [][NextDocs]_vars

\* the payment bot's order flow for a user who may choose between two plans
\* of the catalog
BindPlanIdInputs == {"monthly_premium", "yearly_premium"}
NextBind ==
    \/ \E u \in Users, p \in BindPlanIdInputs : CreatePayment(u, p)
    \/ \E o \in OrderIds : GatewayAdvance(o)
    \/ \E u \in Users, o \in OrderIds : CheckPaymentStatus(u, o)

SpecBind == Init /\ [][NextBind]_vars

----------------------------------------------------------------------------
(* Properties *)

\* the specification's ACTIVE_PREMIUM: a plan is set and the stored expiry
\* is in the future
ACTIVE_PREMIUM(doc, t) ==
    doc.exists /\ doc.plan # "free" /\ fromisoformat_ok(doc.expiry) /\ doc.expiry.t > t

\* C1 (Spec): process_terabox_url delivers a link only if the user was
\* premium or had free uses left at the handler's check; a non-premium user
\* with 0 remaining is refused with the free-limit message, gets no link,
\* and free_uses is not changed.
C1_FreeTierGating ==
    (last.op = "process_url" /\ last.avail) =>
        /\ last.delivered => (last.flag \/ last.rem > 0)
        /\ (~last.flag /\ last.rem = 0) =>
              /\ last.out = "free_limit_reached"
              /\ ~last.delivered
              /\ ~last.consumed

\* C2 (SpecPay): however often, and in whatever order, status checks see
\* the same order paid, the entitlement upgrade is applied at most once for
\* that order, also when the user created another order in between.
C2_IdempotentReconciliation ==
    \A o \in OrderIds : ledger[o].applied <= 1

\* an order has been seen paid by two checks, after a second order was made
C2_Witness ==
    \E o \in OrderIds : ledger[o].paid_checks >= 2 /\ Len(orders) >= 2

\* C3 (SpecRace): a consume that read free_uses = 0 and writes while
\* another consume has stored 1 in between leaves free_uses at exactly 2:
\* two concurrent consumes from 0 never leave 1.
C3_NoLostUpdate ==
    (last.op = "consume" /\ last.wrote /\ last.found /\ last.n = 0
        /\ last.before = 1) => last.stored = 2

\* C4 (Spec): a call of activate_premium_plan for a catalog plan, with the
\* store available and the user's record present, succeeds and sets the
\* expiry to the previous expiry plus the plan's duration if the user is
\* ACTIVE_PREMIUM, to now plus the duration otherwise.
C4_CumulativeExpiry ==
    [][\A u \in Users, p \in CatalogPlanIds :
          (ActivatePremiumPlan(u, p) /\ last'.avail /\ store[u].exists) =>
              /\ last'.flag
              /\ fromisoformat_ok(store'[u].expiry)
              /\ store'[u].expiry.t =
                    (IF ACTIVE_PREMIUM(store[u], now)
                     THEN store[u].expiry.t ELSE now) + DurationDays(p)]_vars

\* C5 (SpecPay): when a status check sees the gateway status 'paid' for an
\* order made for a catalog plan, and the store is available, the user the
\* order was made for is ACTIVE_PREMIUM when the check finishes, whatever
\* user_data holds.
C5_PaidLeadsToEntitlement ==
    [][\A u \in Users, o \in OrderIds :
          (/\ CheckPaymentStatus(u, o)
           /\ last'.status = "paid"
           /\ last'.avail
           /\ store[u].exists
           /\ orders[o].plan_id \in CatalogPlanIds) =>
              ACTIVE_PREMIUM(store'[orders[o].user_id], now)]_vars

\* C6 (SpecPay): when the entitlement update fails in the reconciliation of
\* a paid order (the call raises or returns False), the user is not shown
\* the payment-success message and the admins are not told of an upgrade;
\* an activation whose update fails returns (False, "Failed to update
\* premium status").
C6_NoFalseSuccess ==
    /\ (last.op = "check_payment" /\ last.status = "paid" /\ last.wrote
            /\ ~last.flag) =>
          (last.out # "payment_success" /\ ~last.told)
    /\ (last.op = "activate" /\ last.arg \in CatalogPlanIds /\ ~last.wrote) =>
          (~last.flag /\ last.out = "Failed to update premium status")

\* a check of a paid order has ended with the upgrade call failed
C6_Witness ==
    /\ last.op = "check_payment" /\ last.status = "paid"
    /\ last.wrote /\ ~last.flag
    /\ store[last.u].exists

\* C7 (SpecPay): a status check changes a user's record only if the gateway
\* reported the order paid: a check that ended with status created, pending
\* or failed, or with the fetch failed, has left every record as it was.
C7_ActivationOnlyOnPaid ==
    (last.op = "check_payment" /\ last.changed) => last.status = "paid"

\* a check of an existing user's order has ended on a status other than paid
C7_Witness ==
    /\ last.op = "check_payment"
    /\ last.status \in {"created", "pending", "failed"}
    /\ last.avail
    /\ store[last.u].exists

\* C8 (Spec): get_remaining_free_uses returns 3 - k for a free user with
\* free_uses = k < 3, and after one consume of that record, nothing else
\* having touched it, the value for the stored record is max(3 - k - 1, 0).
C8_RemainingCountsDown ==
    [][/\ (/\ StepGet(1)
           /\ slots[1].op = "get_remaining"
           /\ Idle(1)'
           /\ store[slots[1].u].plan = "free"
           /\ store[slots[1].u].free_uses < FreeLimit) =>
              last'.ret = FreeLimit - store[slots[1].u].free_uses
       /\ (/\ StepUpdate(1)
           /\ last'.wrote
           /\ slots[1].found /\ slots[1].pfree
           /\ slots[1].n < FreeLimit
           /\ store[slots[1].u].plan = "free"
           /\ store[slots[1].u].free_uses = slots[1].n) =>
              RemainingOf(store'[slots[1].u], now) =
                  Max(FreeLimit - slots[1].n - 1, 0)]_vars

\* a consume of a free record with free_uses = 2 has finished, leaving 0
C8_Witness ==
    /\ last.op = "consume" /\ last.wrote /\ last.found /\ last.pfree
    /\ last.n = 2 /\ last.before = 2
    /\ store[last.u].plan = "free"
    /\ RemainingOf(store[last.u], now) = 0

\* C9 (Spec): for every stored record, get_remaining_free_uses gives
\* 'unlimited' if and only if is_user_premium gives is_premium = True.
C9_PremiumChecksAgree ==
    \A u \in Users :
        store[u].exists =>
            ((RemainingOf(store[u], now) = Inf)
                <=> is_user_premium(get_user(store, u, TRUE), now)[1])

\* C10 (Spec): is_user_premium returns (False, None) for a user never seen
\* and for a FREE user, (True, expiry) when a plan is set and the stored
\* expiry is in the future, (False, expiry) when the stored expiry is in
\* the past, and (False, None) when the stored expiry cannot be parsed.
C10_CheckReturns ==
    \A u \in Users :
        users_ref =>
            LET d == store[u]
                r == is_user_premium(get_user(store, u, TRUE), now)
            IN /\ (~d.exists \/ d.plan = "free") => r = <<FALSE, None>>
               /\ (d.exists /\ d.plan # "free" /\ ~fromisoformat_ok(d.expiry)) =>
                      r = <<FALSE, None>>
               /\ (d.exists /\ d.plan # "free" /\ fromisoformat_ok(d.expiry)) =>
                      /\ r[1] = (d.expiry.t > now)
                      /\ r[2].t = d.expiry.t

\* the specification's FREE and EXPIRED_PREMIUM
FREE(doc) == doc.exists /\ doc.plan = "free"
EXPIRED_PREMIUM(doc, t) ==
    doc.exists /\ doc.plan # "free" /\ fromisoformat_ok(doc.expiry) /\ doc.expiry.t <= t

\* C11 (Spec): for every catalog plan, activate_premium_plan on a FREE or
\* EXPIRED_PREMIUM user with the store available returns success and leaves
\* the user ACTIVE_PREMIUM.
C11_PremiumLifeCycle ==
    [][\A u \in Users, p \in CatalogPlanIds :
          (/\ ActivatePremiumPlan(u, p)
           /\ last'.avail
           /\ FREE(store[u]) \/ EXPIRED_PREMIUM(store[u], now)) =>
              (last'.flag /\ ACTIVE_PREMIUM(store'[u], now))]_vars

\* C12 (Spec): activate_premium_plan with a plan id outside the catalog
\* returns (False, "Invalid plan selected") and changes no record.
C12_InvalidPlanRejected ==
    (last.op = "activate" /\ last.arg \notin CatalogPlanIds) =>
        (~last.flag /\ last.out = "Invalid plan selected" /\ ~last.wrote)

\* an activation with an unknown plan id has returned, for an existing user
C12_Witness ==
    /\ last.op = "activate" /\ last.arg = "bogus"
    /\ store[last.u].exists

\* C13 (Spec): no step of get_remaining_free_uses, increment_free_uses,
\* create_user, reset_daily_uses or is_user_premium changes the plan or the
\* expiry of a user whose record exists.
C13_PlanExpiryFrame ==
    [][(\/ StepGet(1) \/ StepCreateGet(1) \/ StepCreateSet(1) \/ StepUpdate(1)
        \/ ResetStart \/ ResetUpdate
        \/ \E u \in Users : IsUserPremium(u)) =>
          \A u \in Users :
              store[u].exists =>
                  /\ store'[u].exists
                  /\ store'[u].plan = store[u].plan
                  /\ store'[u].expiry = store[u].expiry]_vars

\* C14 (Spec): every value other than the sentinel -1 that
\* increment_free_uses returns is a free_uses value that its update stored:
\* a failed read, creation or update makes it return -1.
C14_ConsumeSentinelOnError ==
    (last.op = "consume" /\ last.ret # Sentinel) =>
        (last.wrote /\ last.stored = last.ret)

\* C15 (Spec): a get_remaining_free_uses whose read failed although the
\* user's record exists returns 0: when the call returns from its
\* create-if-absent branch for a user who already had a record, the value
\* is 0, not the full limit.
C15_GetRemainingFailsClosed ==
    [][(/\ StepCreateGet(1) \/ StepCreateSet(1)
        /\ slots[1].op = "get_remaining"
        /\ Idle(1)'
        /\ store[slots[1].u].exists) =>
          last'.ret = 0]_vars

\* a run of reset_daily_uses returns its count in this step
ResetReturns ==
    /\ ResetStart \/ ResetUpdate
    /\ rst'.pc = "idle"
    /\ last'.op = "reset" /\ last'.ret # Sentinel

\* what every step of reset_daily_uses shows: the run is at its updates
\* before or after it, or it has just returned
InResetStep ==
    rst.pc = "update" \/ rst'.pc = "update" \/ last'.op = "reset"

\* C16 (Spec): a run of reset_daily_uses that returns a count leaves every
\* record with plan 'free' with free_uses = 0; its updates change nothing
\* but free_uses, and a run over free users whose counters are already 0
\* leaves every record as it was.  (The model's last_active field says how
\* the stored time stands to the latest change; the update does not write it.)
C16_ResetIdempotent ==
    [][InResetStep =>
       /\ ResetReturns =>
              \A u \in Users : FREE(store'[u]) => store'[u].free_uses = 0
       /\ ResetUpdate =>
              \A u \in Users :
                  \/ store'[u] = store[u]
                  \/ store'[u] = [store[u] EXCEPT !.free_uses = 0,
                                                  !.last_active = FALSE]
       /\ (/\ ResetStart \/ ResetUpdate
           /\ \A u \in rst.todo : FREE(store[u])
           /\ \A u \in Users : FREE(store[u]) => store[u].free_uses = 0) =>
              store' = store]_vars

\* a run has returned after setting a free user's counter that was 0 already
C16_Witness ==
    /\ last.op = "reset" /\ last.ret >= 1 /\ last.n = 0
    /\ \E u \in Users : FREE(store[u]) /\ store[u].free_uses = 0

\* C17 (Spec): the count reset_daily_uses returns is the number of counters
\* it reset, so a run that finds every free user's free_uses at 0 returns 0.
C17_ResetCountsResets ==
    (last.op = "reset" /\ last.ret # Sentinel) => last.ret = last.n

\* C18 (Spec): for a user whose plan is set and whose expiry is past,
\* get_remaining_free_uses gives max(3 - free_uses, 0), and when a run of
\* reset_daily_uses has returned its count it gives 3.
C18_ExpiredGatedLikeFree ==
    [][/\ \A u \in Users :
              EXPIRED_PREMIUM(store[u], now) =>
                  RemainingOf(store[u], now) = Max(FreeLimit - store[u].free_uses, 0)
       /\ ResetReturns =>
              \A u \in Users :
                  EXPIRED_PREMIUM(store'[u], now) =>
                      RemainingOf(store'[u], now) = FreeLimit]_vars

\* C19 (SpecGated): with every increment_free_uses preceded in its
\* handler by a check that get_remaining_free_uses > 0, and at most MaxCalls
\* handlers in flight, the stored free_uses never exceeds 3 + (MaxCalls - 1).
C19_BoundedOverConsumption ==
    \A u \in Users : store[u].free_uses <= FreeLimit + (MaxCalls - 1)

\* C20 (Spec): in every reachable state every stored free_uses is an
\* integer >= 0, and what get_remaining_free_uses returns, and would return
\* for each record, is 'unlimited' or an integer >= 0.
C20_CountsNeverNegative ==
    /\ \A u \in Users :
          /\ store[u].free_uses \in Nat
          /\ store[u].exists =>
                (RemainingOf(store[u], now) = Inf
                    \/ RemainingOf(store[u], now) \in 0..FreeLimit)
    /\ last.op = "get_remaining" => (last.ret = Inf \/ last.ret \in 0..FreeLimit)

\* get_remaining_free_uses has returned 0 for a counter above the limit
C20_Witness ==
    /\ last.op = "get_remaining" /\ last.found
    /\ last.n > FreeLimit /\ last.ret = 0

\* C21: process_webhook_event given a signature that is not the HMAC of the
\* request body under the webhook secret returns failure with an error,
\* before json.loads sees the body, with no field of the body in what it
\* returns, and leaves every user's record as it was
C21_WebhookIntegrity ==
    [][\A b \in WebhookBodies : \A g \in WebhookSignatures(b) :
         (/\ ProcessWebhookEvent(b, g)
          /\ g # hmac_hexdigest(RAZORPAY_WEBHOOK_SECRET, <<b>>))
         => /\ ~last'.flag
            /\ ~last'.parsed
            /\ last'.out \in {"Invalid webhook signature", "TypeError"}
            /\ last'.oid = 0 /\ last'.status = ""
            /\ store' = store]_vars

\* a captured payment's body arrived under another body's signature, while
\* a premium record was in the store, and was refused
C21_Witness ==
    /\ last.op = "process_webhook_event"
    /\ last.arg = "captured"
    /\ last.sig = hmac_hexdigest(RAZORPAY_WEBHOOK_SECRET, <<"failed">>)
    /\ last.out = "Invalid webhook signature"
    /\ \E u \in Users : store[u].plan # "free"

\* C22: every webhook request whose signature verifies and whose event
\* reports a captured payment leads to a call of activation for the order,
\* user and plan of the event
C22_WebhookReconciles ==
    (last.op = "handle_webhook" /\ last.flag) => last.wrote

\* C23: create_order given a discount code that is not in DISCOUNT_CODES, or
\* one whose valid_until date has passed, creates the order at the plan's
\* full price_in_paise and returns no error
C23_BadCodeFullPrice ==
    (/\ last.op = "create_order" /\ last.flag
     /\ last.code # NoCode
     /\ \/ upper(last.code) \notin DISCOUNT_CODES
        \/ now > ValidUntil)
    => last.ret = PriceInPaise(last.arg)

\* an order was created under a code that is not in DISCOUNT_CODES
C23_Witness ==
    /\ last.op = "create_order" /\ last.flag
    /\ last.code = "SAVE50"

\* C24: an order created under a code of DISCOUNT_CODES, with percentage p
\* and cap C (in paise), for a catalog plan of price P paise, has the amount
\* P - min(p * P / 100, C); WELCOME10 on the 4900 plan gives 4410
C24_DiscountedAmount ==
    (/\ last.op = "create_order" /\ last.flag
     /\ upper(last.code) \in DISCOUNT_CODES)
    => LET P == PriceInPaise(last.arg)
           p == Percentage(upper(last.code))
           C == MaxDiscount(upper(last.code)) * 100
           d == IF (p * P) \div 100 < C THEN (p * P) \div 100 ELSE C
       IN  /\ (p * P) % 100 = 0
           /\ last.ret = P - d
           /\ (last.arg = "monthly_premium" /\ last.code = "WELCOME10")
              => last.ret = 4410

\* WELCOME10 was applied to the monthly plan
C24_Witness ==
    /\ last.op = "create_order" /\ last.flag
    /\ last.arg = "monthly_premium" /\ last.code = "WELCOME10"
    /\ last.ret = 4410

\* C27: verify_payment accepts the signature generate_payment_signature
\* makes for the same order id and payment id, and rejects every signature
\* that differs from it in one character
C27_PaymentSignature ==
    last.op = "verify_payment" =>
        LET good == generate_payment_signature(last.arg, last.payment_id)
        IN  /\ last.sig = good => last.flag
            /\ (\E i \in FlipChars :
                    last.sig \in {flip_char(good, i), flip_non_ascii(good, i)})
               => ~last.flag

\* a signature with one hexadecimal digit replaced was rejected
C27_Witness ==
    /\ last.op = "verify_payment"
    /\ last.sig = flip_char(generate_payment_signature("order_1", "pay_1"), 2)
    /\ ~last.flag

\* C25: decode_callback_data given a token generate_callback_data made for
\* a user and a catalog plan returns that user id and plan id when called
\* within 24 hours of the token's making, and (None, None) 25 hours after it
C25_TokenRoundTrip ==
    \A u \in Users, p \in CatalogPlanIds, t \in ClockPoints :
        (/\ last.op = "decode_callback_data"
         /\ last.tok = generate_callback_data(u, p, t))
        => /\ (last.at >= t /\ last.at - t <= 24 * 3600)
              => (last.flag /\ last.u = u /\ last.arg = p)
           /\ last.at - t = 25 * 3600 => ~last.flag

\* a token was decoded 25 hours after it was made
C25_Witness ==
    /\ last.op = "decode_callback_data"
    /\ last.tok = generate_callback_data(1, "monthly_premium", 0)
    /\ last.at = 25 * 3600
    /\ ~last.flag

\* C26: decode_callback_data returns the one value (None, None) for a token
\* that was changed or made under another key, for a plaintext that does
\* not split into 3 fields, for a user id or a timestamp that is not a
\* number, and for a token older than 24 hours
C26_DecodeFailsClosed ==
    (/\ last.op = "decode_callback_data"
     /\ \/ last.tok.tamper # 0
        \/ last.tok.key # ENCRYPTION_KEY
        \/ Len(last.tok.plain) # 3
        \/ ~last.tok.plain[1].num
        \/ ~last.tok.plain[3].num
        \/ last.at - last.tok.plain[3].val > 24 * 3600)
    => (~last.flag /\ last.u = 0 /\ last.arg = "")

\* an issued token with a byte changed was presented while still fresh
C26_Witness ==
    /\ last.op = "decode_callback_data"
    /\ last.tok = [generate_callback_data(1, "monthly_premium", 0)
                      EXCEPT !.tamper = 1]
    /\ last.at = 3600
    /\ ~last.flag

\* C29: every operation that changes a field of a user's record (consume,
\* activate or upgrade, the reset of the free counters) also sets the
\* record's last_active to the time of the change
C29_LastActiveOnMutation ==
    \A u \in Users : store[u].exists => store[u].last_active

\* C30: every invocation of the scheduled reset that set at least one
\* user's free_uses to 0 has written one daily_reset audit record whose
\* users_reset is the number of records it updated, also when it failed
\* part-way through the scan
C30_ResetAudit ==
    (last.op = "cloud_reset" /\ last.n >= 1)
    => /\ last.wrote
       /\ Len(logs) >= 1
       /\ logs[Len(logs)].type = "daily_reset"
       /\ logs[Len(logs)].users_reset = last.n

\* C31: for every configured MAX_FREE_USES_PER_DAY = L, get_remaining
\* returns max(L - free_uses, 0) for a free user it found, and L for a user
\* it did not find
C31_ConfiguredFreeLimit ==
    \A L \in ConfiguredLimits :
        /\ (last.op = "get_remaining" /\ last.found /\ last.pfree)
           => last.ret = Max(L - last.n, 0)
        /\ (last.op = "get_remaining" /\ ~last.found /\ users_ref)
           => last.ret = L

\* C32: decode_callback_data accepts a token of a catalog plan while
\* now - issued_at <= 86400 seconds, a token aged exactly 86400 seconds
\* included, and returns (None, None) from 86401 seconds on
C32_TokenExpiryBoundary ==
    \A u \in Users, p \in CatalogPlanIds, t \in ClockPoints :
        (/\ last.op = "decode_callback_data"
         /\ last.tok = generate_callback_data(u, p, t)
         /\ last.at >= t)
        => /\ last.at - t <= 86400
              => (last.flag /\ last.u = u /\ last.arg = p)
           /\ last.at - t >= 86401 => ~last.flag

\* a token aged exactly 86400 seconds was decoded
C32_Witness ==
    /\ last.op = "decode_callback_data"
    /\ last.tok = generate_callback_data(1, "yearly_premium", 3600)
    /\ last.at = 90000
    /\ last.flag /\ last.u = 1 /\ last.arg = "yearly_premium"

\* C33: a URL handled for a user who is ACTIVE_PREMIUM at the request (the
\* plan is set and the expiry is in the future, so that the remaining count
\* is unlimited) is not refused with the free-limit message and leaves the
\* user's free_uses as it was
C33_PremiumUncounted ==
    (last.op = "process_url" /\ last.rem = Inf)
    => (last.out # "free_limit_reached" /\ ~last.consumed)

\* a URL was handled for an active premium user whose free_uses had
\* reached the free limit before the upgrade
C33_Witness ==
    /\ last.op = "process_url" /\ last.rem = Inf
    /\ ACTIVE_PREMIUM(store[last.u], now)
    /\ store[last.u].free_uses >= FreeLimit

\* C34: for a record whose plan is not 'free' and whose stored expiry
\* cannot be parsed, get_remaining_free_uses returns max(3 - free_uses, 0),
\* as it does for a free user with that free_uses
C34_MalformedExpiryAsFree ==
    (/\ last.op = "get_remaining" /\ last.found /\ ~last.pfree
     /\ store[last.u].expiry # None
     /\ ~fromisoformat_ok(store[last.u].expiry))
    => last.ret = Max(FreeLimit - last.n, 0)

C36_ExpiryNeverBackwards ==
    [][\A u \in Users :
          (/\ \/ \E p \in PlanTypeInputs : UpgradeUserPlan(u, p)
              \/ \E p \in PlanIdInputs : ActivatePremiumPlan(u, p)
           /\ last'.flag
           /\ fromisoformat_ok(store[u].expiry))
          => /\ fromisoformat_ok(store'[u].expiry)
             /\ store'[u].expiry.t >= store[u].expiry.t]_vars


\* C37: create_user never overwrites: whenever create_user writes the default
\* record for a user, under any interleaving with consume, get_remaining or
\* another create_user, no record of that user exists at the moment of the
\* write, so an existing record keeps its free_uses, plan and expiry
C37_CreateNeverOverwrites ==
    [][\A c \in CallIds :
          (StepCreateSet(c) /\ store[slots[c].u].exists)
          => /\ store'[slots[c].u].free_uses = store[slots[c].u].free_uses
             /\ store'[slots[c].u].plan = store[slots[c].u].plan
             /\ store'[slots[c].u].expiry = store[slots[c].u].expiry]_vars


\* C38: a reset is not undone by a consume in flight: when the reset has
\* written free_uses = 0 for the user and no call has finished since, the
\* consume that finishes next is the first one after that write, so the
\* counter it leaves stored is at most 1
C38_ResetNotUndone ==
    [][\A c \in CallIds :
          (/\ StepUpdate(c)
           /\ slots[c].op = "consume"
           /\ last.op = "reset"
           /\ last.ret >= 1
           /\ store[slots[c].u].free_uses = 0)
          => store'[slots[c].u].free_uses <= 1]_vars


\* C39: a free use is charged only for a delivered download: one handled URL
\* of a user who is not premium raises the stored free_uses by at most one,
\* and only when a download link was sent; it is left unchanged when the
\* handler ends with download_error (the file-info lookup failed) or sent
\* no link
C39_ChargedOnlyWhenDelivered ==
    (last.op = "process_url" /\ ~last.flag)
    => /\ last.stored \in {last.before, last.before + 1}
       /\ last.consumed => last.delivered
       /\ last.out = "download_error" => last.stored = last.before
       /\ ~last.delivered => last.stored = last.before

\* a user on the free plan with quota left sends a URL, the file-info lookup
\* fails, no link is sent and the counter is not touched
C39_Witness ==
    /\ last.op = "process_url"
    /\ ~last.flag
    /\ last.out = "download_error"
    /\ ~last.delivered
    /\ ~last.consumed
    /\ store[last.u].exists
    /\ store[last.u].plan = "free"
    /\ store[last.u].free_uses \in 1..(FreeLimit - 1)

====
